---- MODULE Spec2Model ----
(***************************************************************************)
(* A model of build_imdb_dataset.py: the cache gate of build_imdb_csv, the *)
(* fetches of the four raw datasets, the merge and the title filter, the   *)
(* collection of director and writer identifiers, the chunked scan of      *)
(* load_relevant_people, the disambiguation of duplicate names and the     *)
(* rewriting of identifier lists by ids_to_names.                          *)
(*                                                                         *)
(* A text value is a sequence of one-character strings, so that splitting  *)
(* on a comma, stripping, joining and the "(n)" suffix are computed.       *)
(* A cell of a table is NA or Val(v).                                      *)
(***************************************************************************)
EXTENDS Integers, Sequences, FiniteSets, TLC

VARIABLES
    pc,               \* position of the running call
    force,            \* the force argument of the running call
    csv,              \* the file at CSV_PATH: NA when missing, else Val(table)
    ret,              \* value returned by the last finished call
    fetched,          \* archives requested by the running call, in order
    writes,           \* number of to_csv calls of the running call
    ran,              \* whether the running call passed the cache gate
    calls,            \* number of calls started
    prev,             \* summary of the previous finished call
    existed,          \* CSV_PATH.exists() as seen by the running call
    before,           \* the file at CSV_PATH when the running call started
    basics,           \* title.basics as read
    ratings,          \* title.ratings as read
    crew,             \* title.crew as read
    df,               \* the working frame of build_imdb_csv
    relevant_ids,     \* the set handed to load_relevant_people
    name_basics,      \* the rows of the name.basics archive
    requested,        \* number of chunks asked of the reader
    frames,           \* matches kept so far, one frame per matching chunk
    remaining_ids,    \* identifiers still missing
    total_matched,    \* rows matched so far
    warned,           \* number of identifiers named by the warning, 0 if none
    relevant_people,  \* the frame load_relevant_people returns
    name_map,         \* nconst-indexed names: a sequence of <<nconst, name>>
    series,           \* the column handed to ids_to_names
    out               \* the column ids_to_names returns

vars == <<pc, force, csv, ret, fetched, writes, ran, calls, prev, existed,
          before, basics, ratings, crew, df, relevant_ids, name_basics,
          requested, frames, remaining_ids, total_matched, warned, relevant_people, name_map,
          series, out>>

-----------------------------------------------------------------------------
(* Bounds of the model *)

\* rows of name.basics
MaxPeopleRows == 4
\* rows per chunk of the reader; stands for chunksize=250_000
ChunkRows == 2
\* rows of a relevant_people frame drawn directly
MaxPeople == 3
\* rows of a column drawn directly
MaxCells == 2
\* entries of a name lookup drawn directly
MaxEntries == 2
\* rows of title.basics, title.ratings and title.crew drawn directly
MaxTitles == 2
\* calls of build_imdb_csv in a run
MaxCalls == 3

-----------------------------------------------------------------------------
(* Values *)

NA == [na |-> TRUE]
Val(v) == [na |-> FALSE, v |-> v]
IsNA(x) == x.na

CSV_PATH == <<"i","m","d","b","_","m","o","v","i","e","s",".","c","s","v">>

Range(s) == {s[i] : i \in 1..Len(s)}

SeqsUpTo(S, n) == UNION {[1..k -> S] : k \in 0..n}

RECURSIVE Concat(_)
\* pd.concat(frames, ignore_index=True)
Concat(fs) == IF fs = <<>> THEN <<>> ELSE Head(fs) \o Concat(Tail(fs))

-----------------------------------------------------------------------------
(* Text *)

RECURSIVE SplitFrom(_, _, _)
\* str.split(sep): cur is the token being read
SplitFrom(s, sep, cur) ==
    IF s = <<>> THEN <<cur>>
    ELSE IF Head(s) = sep THEN <<cur>> \o SplitFrom(Tail(s), sep, <<>>)
    ELSE SplitFrom(Tail(s), sep, Append(cur, Head(s)))

Split(s, sep) == SplitFrom(s, sep, <<>>)

RECURSIVE Join(_, _)
\* sep.join(parts)
Join(parts, sep) ==
    IF parts = <<>> THEN <<>>
    ELSE IF Len(parts) = 1 THEN parts[1]
    ELSE parts[1] \o <<sep>> \o Join(Tail(parts), sep)

\* the characters str.strip() removes, among those a string can hold here:
\* space, tab, line feed, carriage return, form feed, and (written as the
\* characters themselves) the vertical tab U+000B and the separators
\* U+001C, U+001D, U+001E, U+001F
Whitespace ==
    {" ", "\t", "\n", "\r", "\f", "", "", "", "", ""}

RECURSIVE LStrip(_)
LStrip(s) == IF s # <<>> /\ Head(s) \in Whitespace THEN LStrip(Tail(s)) ELSE s

RECURSIVE RStrip(_)
RStrip(s) ==
    IF s # <<>> /\ s[Len(s)] \in Whitespace
    THEN RStrip(SubSeq(s, 1, Len(s) - 1))
    ELSE s

\* str.strip()
Strip(s) == RStrip(LStrip(s))

Digit(d) == CASE d = 0 -> "0" [] d = 1 -> "1" [] d = 2 -> "2" [] d = 3 -> "3"
              [] d = 4 -> "4" [] d = 5 -> "5" [] d = 6 -> "6" [] d = 7 -> "7"
              [] d = 8 -> "8" [] d = 9 -> "9"

RECURSIVE DecStr(_)
\* the decimal form of a natural number, as an f-string writes it
DecStr(n) ==
    IF n < 10 THEN <<Digit(n)>> ELSE Append(DecStr(n \div 10), Digit(n % 10))

-----------------------------------------------------------------------------
(* load_relevant_people *)

\* the number of chunks the reader yields for the archive; an archive
\* without a data row yields one empty chunk
NumChunks(rows) ==
    IF rows = <<>> THEN 1 ELSE (Len(rows) + ChunkRows - 1) \div ChunkRows

\* the k-th chunk of the reader, k counted from 1
Chunk(rows, k) ==
    SubSeq(rows, (k - 1) * ChunkRows + 1,
           IF k * ChunkRows < Len(rows) THEN k * ChunkRows ELSE Len(rows))

\* a variant of DropNaPeople that drops on the identifier alone
DropNaIdOnly(chunk) == SelectSeq(chunk, LAMBDA r : ~IsNA(r.nconst))

\* chunk.dropna(subset=["nconst", "primaryName"])
DropNaPeople(chunk) ==
    SelectSeq(chunk, LAMBDA r : ~IsNA(r.nconst) /\ ~IsNA(r.primaryName))

\* chunk[chunk["nconst"].isin(remaining_ids)]
Matches(chunk, remaining) ==
    SelectSeq(DropNaPeople(chunk), LAMBDA r : r.nconst.v \in remaining)

\* set(matches["nconst"])
MatchedIds(matches) == {matches[i].nconst.v : i \in 1..Len(matches)}

\* `if not relevant_ids`: the empty frame, and no download
LoadSkip ==
    /\ pc = "load"
    /\ relevant_ids = {}
    /\ relevant_people' = <<>>
    /\ pc' = "loaded"
    /\ UNCHANGED <<force, csv, ret, fetched, writes, ran, calls, prev, existed,
                   before, basics, ratings, crew, df, relevant_ids, name_basics,
                   requested, frames, remaining_ids, total_matched, warned,
                   name_map, series, out>>

\* download_imdb_archive("name.basics") returns; the reader is opened
LoadDownload ==
    /\ pc = "load"
    /\ relevant_ids # {}
    /\ fetched' = Append(fetched, "name.basics")
    /\ frames' = <<>>
    /\ remaining_ids' = relevant_ids
    /\ total_matched' = 0
    /\ requested' = 0
    /\ pc' = "scan"
    /\ UNCHANGED <<force, csv, ret, writes, ran, calls, prev, existed, before, basics,
                   ratings, crew, df, relevant_ids, name_basics, warned,
                   relevant_people, name_map, series, out>>

\* download_imdb_archive("name.basics") raises
LoadDownloadFails ==
    /\ pc = "load"
    /\ relevant_ids # {}
    /\ fetched' = Append(fetched, "name.basics")
    /\ pc' = "raised"
    /\ UNCHANGED <<force, csv, ret, writes, ran, calls, prev, existed,
                   before, basics, ratings, crew, df, relevant_ids, name_basics,
                   requested, frames, remaining_ids, total_matched, warned,
                   relevant_people, name_map, series, out>>

\* a variant of ScanChunk without the `break`
ScanChunkNoBreak ==
    /\ pc = "scan"
    /\ requested < NumChunks(name_basics)
    /\ LET matches == SelectSeq(Chunk(name_basics, requested + 1),
                                LAMBDA r : /\ ~IsNA(r.nconst) /\ ~IsNA(r.primaryName)
                                           /\ r.nconst.v \in remaining_ids)
       IN /\ requested' = requested + 1
          /\ frames' = IF matches # <<>> THEN Append(frames, matches) ELSE frames
          /\ remaining_ids' = remaining_ids \ {matches[i].nconst.v : i \in 1..Len(matches)}
          /\ total_matched' = total_matched + Len(matches)
          /\ pc' = "scan"
    /\ UNCHANGED <<force, csv, ret, fetched, writes, ran, calls, prev, existed,
                   before, basics, ratings, crew, df, relevant_ids, name_basics, warned,
                   relevant_people, name_map, series, out>>

\* one pass of the loop body over the next chunk of the reader
ScanChunk ==
    /\ pc = "scan"
    /\ requested < NumChunks(name_basics)
    /\ LET matches == Matches(Chunk(name_basics, requested + 1), remaining_ids)
           left == IF matches # <<>>
                   THEN remaining_ids \ MatchedIds(matches)
                   ELSE remaining_ids
       IN /\ requested' = requested + 1
          /\ frames' = IF matches # <<>> THEN Append(frames, matches) ELSE frames
          /\ remaining_ids' = left
          /\ total_matched' = total_matched + Len(matches)
          /\ pc' = IF left = {} THEN "after" ELSE "scan"
    /\ UNCHANGED <<force, csv, ret, fetched, writes, ran, calls, prev, existed,
                   before, basics, ratings, crew, df, relevant_ids, name_basics, warned,
                   relevant_people, name_map, series, out>>

\* the reader is asked for a chunk and has none left: the loop ends
ScanExhausted ==
    /\ pc = "scan"
    /\ requested >= NumChunks(name_basics)
    /\ requested' = requested + 1
    /\ pc' = "after"
    /\ UNCHANGED <<force, csv, ret, fetched, writes, ran, calls, prev, existed,
                   before, basics, ratings, crew, df, relevant_ids, name_basics, frames,
                   remaining_ids, total_matched, warned, relevant_people,
                   name_map, series, out>>

\* the reader fails to parse the next chunk
ScanParseFails ==
    /\ pc = "scan"
    /\ requested < NumChunks(name_basics)
    /\ requested' = requested + 1
    /\ pc' = "raised"
    /\ UNCHANGED <<force, csv, ret, fetched, writes, ran, calls, prev, existed,
                   before, basics, ratings, crew, df, relevant_ids, name_basics, frames,
                   remaining_ids, total_matched, warned, relevant_people,
                   name_map, series, out>>

\* after the loop: concatenate the frames, warn about missing identifiers
LoadReturn ==
    /\ pc = "after"
    /\ relevant_people' = IF frames # <<>> THEN Concat(frames) ELSE <<>>
    /\ warned' = IF remaining_ids # {} THEN Cardinality(remaining_ids) ELSE 0
    /\ pc' = "loaded"
    /\ UNCHANGED <<force, csv, ret, fetched, writes, ran, calls, prev, existed,
                   before, basics, ratings, crew, df, relevant_ids, name_basics,
                   requested, frames, remaining_ids, total_matched, name_map,
                   series, out>>

-----------------------------------------------------------------------------
(* build_imdb_csv: merge, filter, collection of identifiers *)

MIN_START_YEAR == 1930
MIN_NUM_VOTES == 1000
Movie == <<"m", "o", "v", "i", "e">>
Short == <<"s", "h", "o", "r", "t">>

\* the rows of `right` with the key of row l
KeyMatches(l, right) == SelectSeq(right, LAMBDA r : r.tconst = l.tconst)

\* row l joined with each row of rs, in the order of rs
Paired(l, rs) == [i \in 1..Len(rs) |-> l @@ rs[i]]

RECURSIVE MergeInner(_, _)
\* left.merge(right, on="tconst", how="inner")
MergeInner(left, right) ==
    IF left = <<>> THEN <<>>
    ELSE Paired(Head(left), KeyMatches(Head(left), right))
             \o MergeInner(Tail(left), right)

\* a variant of MergeLeft that drops the rows without a match
MergeLeftDropsUnmatched(left, right, missing) == MergeInner(left, right)

RECURSIVE MergeLeft(_, _, _)
\* left.merge(right, on="tconst", how="left"); `missing` holds the columns of
\* `right`, all NA
MergeLeft(left, right, missing) ==
    IF left = <<>> THEN <<>>
    ELSE (IF KeyMatches(Head(left), right) = <<>>
          THEN <<Head(left) @@ missing>>
          ELSE Paired(Head(left), KeyMatches(Head(left), right)))
             \o MergeLeft(Tail(left), right, missing)

NoCrew == [directors |-> NA, writers |-> NA]

\* a comparison with a missing value is False
EqCell(x, v) == ~IsNA(x) /\ x.v = v
GeCell(x, n) == ~IsNA(x) /\ x.v >= n

\* a variant of TitleMask with a strict bound on the start year
TitleMaskStrictYear(r) ==
    /\ EqCell(r.isAdult, 0)
    /\ EqCell(r.titleType, Movie)
    /\ ~IsNA(r.runtimeMinutes)
    /\ ~IsNA(r.startYear) /\ r.startYear.v > MIN_START_YEAR
    /\ GeCell(r.numVotes, MIN_NUM_VOTES)

\* the mask of the title filter
TitleMask(r) ==
    /\ EqCell(r.isAdult, 0)
    /\ EqCell(r.titleType, Movie)
    /\ ~IsNA(r.runtimeMinutes)
    /\ GeCell(r.startYear, MIN_START_YEAR)
    /\ GeCell(r.numVotes, MIN_NUM_VOTES)

\* the stripped, non-empty tokens of the non-null cells of a column
ColumnIds(frame, column) ==
    UNION { {Strip(tok) : tok \in Range(Split(frame[i][column].v, ","))}
            : i \in {k \in 1..Len(frame) : ~IsNA(frame[k][column])} } \ {<<>>}

\* read_csv types a column that holds no value at all as float64, and the
\* .str accessor of such a column raises
IsFloatColumn(table, column) ==
    /\ table # <<>>
    /\ \A i \in 1..Len(table) : IsNA(table[i][column])

\* basics.merge(ratings, how="inner") then .merge(crew, how="left")
MergeStep ==
    /\ pc = "merge"
    /\ df' = MergeLeft(MergeInner(basics, ratings), crew, NoCrew)
    /\ pc' = "filter"
    /\ UNCHANGED <<force, csv, ret, fetched, writes, ran, calls, prev, existed,
                   before, basics, ratings, crew, relevant_ids, name_basics, requested,
                   frames, remaining_ids, total_matched, warned,
                   relevant_people, name_map, series, out>>

\* df = df[mask].copy()
FilterStep ==
    /\ pc = "filter"
    /\ df' = SelectSeq(df, TitleMask)
    /\ pc' = "collect"
    /\ UNCHANGED <<force, csv, ret, fetched, writes, ran, calls, prev, existed,
                   before, basics, ratings, crew, relevant_ids, name_basics, requested,
                   frames, remaining_ids, total_matched, warned,
                   relevant_people, name_map, series, out>>

\* a variant of CollectStep that writes the frame to CSV_PATH before the
\* names are resolved
CollectStepWritesEarly ==
    /\ pc = "collect"
    /\ relevant_ids' = ColumnIds(df, "directors") \cup ColumnIds(df, "writers")
    /\ csv' = Val(df)
    /\ pc' = "load"
    /\ UNCHANGED <<force, ret, fetched, writes, ran, calls, prev, existed,
                   before, basics, ratings, crew, df, name_basics, requested, frames,
                   remaining_ids, total_matched, warned, relevant_people,
                   name_map, series, out>>

\* the loop over ("directors", "writers")
CollectStep ==
    /\ pc = "collect"
    /\ IF IsFloatColumn(crew, "directors") \/ IsFloatColumn(crew, "writers")
       THEN /\ pc' = "raised"
            /\ UNCHANGED relevant_ids
       ELSE /\ relevant_ids' = ColumnIds(df, "directors") \cup ColumnIds(df, "writers")
            /\ pc' = "load"
    /\ UNCHANGED <<force, csv, ret, fetched, writes, ran, calls, prev, existed,
                   before, basics, ratings, crew, df, name_basics, requested, frames,
                   remaining_ids, total_matched, warned, relevant_people,
                   name_map, series, out>>

-----------------------------------------------------------------------------
(* build_imdb_csv: disambiguation, the name lookup, ids_to_names, the write *)

\* relevant_people["primaryName"].value_counts(), for one name
NameCount(people, name) ==
    Cardinality({i \in 1..Len(people) : people[i].primaryName = Val(name)})

\* a variant of Dups that takes every name that occurs at all
DupsFromOne(people) ==
    {people[i].primaryName.v :
        i \in {k \in 1..Len(people) : ~IsNA(people[k].primaryName)}}

\* dup_counts[dup_counts > 1].index
Dups(people) ==
    {n \in {people[i].primaryName.v :
                i \in {k \in 1..Len(people) : ~IsNA(people[k].primaryName)}} :
        NameCount(people, n) > 1}

\* f"{name} ({counter[name]})"
Suffixed(name, n) == name \o <<" ", "(">> \o DecStr(n) \o <<")">>

RECURSIVE DisambiguateFrom(_, _, _)
\* .apply(disambiguate) over the rows in order; counter is the dict
DisambiguateFrom(rows, dups, counter) ==
    IF rows = <<>> THEN <<>>
    ELSE LET r == Head(rows)
             name == r.primaryName
         IN IF IsNA(name) \/ name.v \notin dups
            THEN <<r>> \o DisambiguateFrom(Tail(rows), dups, counter)
            ELSE LET c == counter[name.v] + 1
                 IN <<[r EXCEPT !.primaryName = Val(Suffixed(name.v, c))]>>
                        \o DisambiguateFrom(Tail(rows), dups,
                                            [counter EXCEPT ![name.v] = c])

\* the `if not relevant_people.empty:` block
Disambiguated(people) ==
    IF people = <<>> THEN people
    ELSE DisambiguateFrom(people, Dups(people), [n \in Dups(people) |-> 0])

\* relevant_people[["nconst", "primaryName"]].dropna().set_index("nconst")
NameLookup(people) ==
    SelectSeq(people, LAMBDA r : ~IsNA(r.nconst) /\ ~IsNA(r.primaryName))

\* whether the index of the lookup holds an identifier twice
DuplicateIndex(mapping) ==
    \E i, j \in 1..Len(mapping) : i # j /\ mapping[i].nconst = mapping[j].nconst

HasEntry(mapping, tok) == \E k \in 1..Len(mapping) : mapping[k].nconst = Val(tok)

Entry(mapping, tok) ==
    mapping[CHOOSE k \in 1..Len(mapping) : mapping[k].nconst = Val(tok)].primaryName.v

RECURSIVE Exploded(_, _)
\* nonnull.str.split(",").explode(): pairs <<row label, token>>, from row i on
Exploded(column, i) ==
    IF i > Len(column) THEN <<>>
    ELSE (IF IsNA(column[i]) THEN <<>>
          ELSE LET toks == Split(column[i].v, ",")
               IN [k \in 1..Len(toks) |-> <<i, toks[k]>>])
             \o Exploded(column, i + 1)

\* .map(mapping).dropna(): pairs <<row label, name>>
Mapped(column, mapping) ==
    LET hits == SelectSeq(Exploded(column, 1), LAMBDA p : HasEntry(mapping, p[2]))
    IN [k \in 1..Len(hits) |-> <<hits[k][1], Entry(mapping, hits[k][2])>>]

\* .groupby(level=0).agg(",".join), for the group of row label i
Grouped(pairs, i) ==
    LET mine == SelectSeq(pairs, LAMBDA p : p[1] = i)
    IN Join([k \in 1..Len(mine) |-> mine[k][2]], ",")

\* a variant of IdsToNames that gives the empty text for a cell without names
IdsToNamesEmptyText(column, mapping) ==
    [i \in 1..Len(column) |->
        IF IsNA(column[i]) THEN NA ELSE Val(Grouped(Mapped(column, mapping), i))]

\* ids_to_names(series, mapping)
IdsToNames(column, mapping) ==
    LET pairs == Mapped(column, mapping)
        labels == {pairs[k][1] : k \in 1..Len(pairs)}
    IN [i \in 1..Len(column) |->
            IF i \in labels THEN Val(Grouped(pairs, i)) ELSE NA]

Column(frame, column) == [i \in 1..Len(frame) |-> frame[i][column]]

\* the columns left after the drops of titleType, isAdult, endYear, tconst
Trimmed(frame) ==
    [i \in 1..Len(frame) |->
        [startYear |-> frame[i].startYear,
         runtimeMinutes |-> frame[i].runtimeMinutes,
         numVotes |-> frame[i].numVotes,
         directors |-> frame[i].directors,
         writers |-> frame[i].writers]]

\* disambiguate the names, build the lookup
NameStep ==
    /\ pc = "loaded"
    /\ relevant_people' = Disambiguated(relevant_people)
    /\ name_map' = NameLookup(relevant_people')
    /\ pc' = "named"
    /\ UNCHANGED <<force, csv, ret, fetched, writes, ran, calls, prev, existed,
                   before, basics, ratings, crew, df, relevant_ids, name_basics,
                   requested, frames, remaining_ids, total_matched, warned,
                   series, out>>

\* the two calls of ids_to_names; .map raises on a lookup whose index holds
\* an identifier twice
RewriteStep ==
    /\ pc = "named"
    /\ IF DuplicateIndex(name_map)
       THEN /\ pc' = "raised"
            /\ UNCHANGED df
       ELSE /\ LET d == IdsToNames(Column(df, "directors"), name_map)
                   w == IdsToNames(Column(df, "writers"), name_map)
               IN df' = [i \in 1..Len(df) |->
                            [df[i] EXCEPT !.directors = d[i], !.writers = w[i]]]
            /\ pc' = "rewritten"
    /\ UNCHANGED <<force, csv, ret, fetched, writes, ran, calls, prev, existed,
                   before, basics, ratings, crew, relevant_ids, name_basics, requested,
                   frames, remaining_ids, total_matched, warned,
                   relevant_people, name_map, series, out>>

\* drop the columns, df.to_csv(CSV_PATH), return CSV_PATH
WriteStep ==
    /\ pc = "rewritten"
    /\ df' = Trimmed(df)
    /\ csv' = Val(df')
    /\ writes' = writes + 1
    /\ ret' = Val(CSV_PATH)
    /\ pc' = "returned"
    /\ UNCHANGED <<force, fetched, ran, calls, prev, existed, before, basics, ratings,
                   crew, relevant_ids, name_basics, requested, frames,
                   remaining_ids, total_matched, warned, relevant_people,
                   name_map, series, out>>

\* one call ids_to_names(series, name_map); .map raises on a lookup whose
\* index holds an identifier twice, whatever the column
IdsToNamesCall ==
    /\ pc = "ids_to_names"
    /\ IF DuplicateIndex(name_map)
       THEN /\ pc' = "raised"
            /\ UNCHANGED out
       ELSE /\ out' = IdsToNames(series, name_map)
            /\ pc' = "mapped"
    /\ UNCHANGED <<force, csv, ret, fetched, writes, ran, calls, prev, existed,
                   before, basics, ratings, crew, df, relevant_ids, name_basics,
                   requested, frames, remaining_ids, total_matched, warned,
                   relevant_people, name_map, series>>

-----------------------------------------------------------------------------
(* load_relevant_people on its own: every wanted set over the identifiers   *)
(* and every archive of at most MaxPeopleRows rows                          *)

P1 == <<"n", "1">>
P2 == <<"n", "2">>
P3 == <<"n", "3">>

Ann == <<"A", "n", "n">>
Bob == <<"B", "o", "b">>

Person(id, name) == [nconst |-> id, primaryName |-> name]

PeopleRowChoices ==
    { Person(Val(P1), Val(Ann)), Person(Val(P1), Val(Bob)),
      Person(Val(P2), Val(Ann)), Person(Val(P2), NA),
      Person(NA, Val(Bob)) }

\* the variables of the call of build_imdb_csv, before any call
GateIdle ==
    /\ force = FALSE /\ csv = NA /\ ret = NA /\ fetched = <<>> /\ writes = 0
    /\ ran = FALSE /\ calls = 0 /\ prev = NA /\ existed = FALSE /\ before = NA

TablesIdle ==
    /\ basics = <<>> /\ ratings = <<>> /\ crew = <<>> /\ df = <<>>

ScanIdle ==
    /\ requested = 0 /\ frames = <<>> /\ remaining_ids = {}
    /\ total_matched = 0 /\ warned = 0

RewriteIdle ==
    /\ name_map = <<>> /\ series = <<>> /\ out = <<>>

InitResolver ==
    /\ pc = "load"
    /\ relevant_ids \in SUBSET {P1, P2, P3}
    /\ name_basics \in SeqsUpTo(PeopleRowChoices, MaxPeopleRows)
    /\ relevant_people = <<>>
    /\ GateIdle /\ TablesIdle /\ ScanIdle /\ RewriteIdle

NextResolver ==
    \/ LoadSkip
    \/ LoadDownload
    \/ LoadDownloadFails
    \/ ScanChunk
    \/ ScanExhausted
    \/ ScanParseFails
    \/ LoadReturn

SpecResolver == InitResolver /\ [][NextResolver]_vars

\* the wanted identifier w has a row with a name among the first n rows
OccursWithin(w, n) ==
    \E i \in 1..Len(name_basics) :
        /\ i <= n
        /\ name_basics[i].nconst = Val(w)
        /\ ~IsNA(name_basics[i].primaryName)

PeopleIds(people) == {people[i].nconst : i \in 1..Len(people)}

\* C3: once every wanted identifier of a non-empty wanted set has occurred,
\* with a name, in chunks 1..j, the reader is never asked for a chunk beyond j
EarlyExit ==
    (pc \in {"scan", "after", "loaded", "raised"} /\ relevant_ids # {}) =>
        \A j \in 1..NumChunks(name_basics) :
            (\A w \in relevant_ids : OccursWithin(w, j * ChunkRows))
                => requested <= j

EarlyExitWitness ==
    /\ pc = "loaded"
    /\ relevant_ids # {}
    /\ remaining_ids = {}
    /\ requested = 1
    /\ NumChunks(name_basics) > 1

\* C4: the identifiers of the result are exactly the wanted identifiers that
\* have a row with non-null identifier and name in the archive; the others
\* are counted by the warning, and the call returns
Completeness ==
    LET found == {w \in relevant_ids : OccursWithin(w, Len(name_basics))}
    IN /\ pc = "loaded" =>
            /\ PeopleIds(relevant_people) = {Val(w) : w \in found}
            /\ warned = Cardinality(relevant_ids \ found)
       /\ pc = "after" => ENABLED LoadReturn

CompletenessWitness ==
    /\ pc = "loaded"
    /\ warned = 1
    /\ PeopleIds(relevant_people) = {Val(P1), Val(P2)}
    /\ relevant_ids = {P1, P2, P3}

\* C5: the result holds at most one row per identifier
OneEntryPerId ==
    pc = "loaded" =>
        \A i, j \in 1..Len(relevant_people) :
            relevant_people[i].nconst = relevant_people[j].nconst => i = j

-----------------------------------------------------------------------------
(* The merge on its own: every choice of the three tables, at most          *)
(* MaxTitles rows each                                                      *)

T1 == <<"t", "1">>
T2 == <<"t", "2">>

Title(t, type, adult, year, runtime) ==
    [tconst |-> Val(t), titleType |-> type, isAdult |-> adult,
     startYear |-> year, runtimeMinutes |-> runtime]

Rating(t, votes) == [tconst |-> Val(t), numVotes |-> votes]

Crew(t, d, w) == [tconst |-> Val(t), directors |-> d, writers |-> w]

BasicsRowChoices ==
    { Title(T1, Val(Movie), Val(0), Val(1930), Val(90)),
      Title(T2, Val(Movie), Val(0), Val(1931), Val(90)),
      Title(T2, Val(Short), Val(0), Val(1930), NA) }

RatingsRowChoices ==
    { Rating(T1, Val(1000)), Rating(T2, Val(1000)), Rating(T2, Val(999)) }

CrewRowChoices ==
    { Crew(T1, Val(P1), NA),
      Crew(T1, Val(P2 \o <<",">> \o P1), Val(P1)),
      Crew(T2, Val(P2), Val(P3)) }

InitJoin ==
    /\ pc = "merge"
    /\ basics \in SeqsUpTo(BasicsRowChoices, MaxTitles)
    /\ ratings \in SeqsUpTo(RatingsRowChoices, MaxTitles)
    /\ crew \in SeqsUpTo(CrewRowChoices, MaxTitles)
    /\ df = <<>>
    /\ relevant_ids = {} /\ name_basics = <<>> /\ relevant_people = <<>>
    /\ GateIdle /\ ScanIdle /\ RewriteIdle

NextJoin == MergeStep

SpecJoin == InitJoin /\ [][NextJoin]_vars

\* at most one row of the table per title identifier
OnePerTitle(table) ==
    \A i, j \in 1..Len(table) : table[i].tconst = table[j].tconst => i = j

Keys(table) == {table[i].tconst : i \in 1..Len(table)}

\* what the join does with unrated titles and with titles without crew
JoinKeepsAndFills ==
    /\ Keys(df) = Keys(basics) \cap Keys(ratings)
    /\ \A i \in 1..Len(df) :
          df[i].tconst \notin Keys(crew) => IsNA(df[i].directors) /\ IsNA(df[i].writers)

\* C10 as stated: basics and ratings with one row per title give a joined
\* frame with at most one row per title, for every crew table
JoinOnePerTitleAnyCrew ==
    (pc = "filter" /\ OnePerTitle(basics) /\ OnePerTitle(ratings)) =>
        OnePerTitle(df) /\ JoinKeepsAndFills

\* C10 amended: basics, ratings and crew with one row per title give a joined
\* frame with at most one row per title; an unrated title is excluded and a
\* title without a crew row is kept with null directors and writers
JoinOnePerTitle ==
    (pc = "filter" /\ OnePerTitle(basics) /\ OnePerTitle(ratings)
        /\ OnePerTitle(crew)) =>
        OnePerTitle(df) /\ JoinKeepsAndFills

JoinOnePerTitleWitness ==
    /\ pc = "filter"
    /\ OnePerTitle(basics) /\ OnePerTitle(ratings) /\ OnePerTitle(crew)
    /\ Len(basics) = 2 /\ Len(ratings) = 1 /\ Len(crew) = 1
    /\ Len(df) = 1
    /\ df[1].tconst \notin Keys(crew)
    /\ IsNA(df[1].directors)

-----------------------------------------------------------------------------
(* The title filter on its own: the frame joined from every choice of       *)
(* title.basics and title.ratings of at most MaxTitles rows each, over the  *)
(* values on both sides of each condition of the filter                     *)

FilterBasicsChoices ==
    { Title(T1, Val(Movie), Val(0), Val(1930), Val(90)),
      Title(T1, Val(Movie), Val(0), Val(1931), Val(60)),
      Title(T1, Val(Movie), Val(1), Val(1930), Val(90)),
      Title(T1, Val(Movie), NA, Val(1930), Val(90)),
      Title(T1, Val(Short), Val(0), Val(1930), Val(90)),
      Title(T1, Val(Movie), Val(0), Val(1930), NA),
      Title(T1, Val(Movie), Val(0), Val(1929), Val(90)),
      Title(T1, Val(Movie), Val(0), NA, Val(90)) }

FilterRatingsChoices ==
    { Rating(T1, Val(1000)), Rating(T1, Val(999)), Rating(T1, NA) }

FilterCrewTables == { <<>>, << Crew(T1, Val(P1), NA) >> }

InitFilter ==
    /\ pc = "merge"
    /\ basics \in SeqsUpTo(FilterBasicsChoices, MaxTitles)
    /\ ratings \in SeqsUpTo(FilterRatingsChoices, MaxTitles)
    /\ crew \in FilterCrewTables
    /\ df = <<>>
    /\ relevant_ids = {} /\ name_basics = <<>> /\ relevant_people = <<>>
    /\ GateIdle /\ ScanIdle /\ RewriteIdle

NextFilter ==
    \/ MergeStep
    \/ FilterStep

SpecFilter == InitFilter /\ [][NextFilter]_vars

\* the five conditions of the filter, on one row
Wanted(r) ==
    /\ r.isAdult = Val(0)
    /\ r.titleType = Val(Movie)
    /\ r.runtimeMinutes # NA
    /\ r.startYear # NA /\ r.startYear.v >= 1930
    /\ r.numVotes # NA /\ r.numVotes.v >= 1000

Times(table, r) == Cardinality({i \in 1..Len(table) : table[i] = r})

\* the positions of the rows of the table that meet the conditions
WantedAt(table) == {i \in 1..Len(table) : Wanted(table[i])}

\* C9: every row the filter keeps meets the five conditions, and every row
\* of the frame before the filter that meets them is kept exactly once
FilterKeepsExactly ==
    [][pc = "filter" =>
        /\ \A i \in 1..Len(df') : Wanted(df'[i])
        /\ Len(df') = Cardinality(WantedAt(df))
        /\ \A k \in WantedAt(df) : Times(df', df[k]) = Times(df, df[k])]_vars

\* a frame of four joined rows, two of them alike, of which the filter has
\* kept the two that meet the conditions
FilterKeepsExactlyWitness ==
    LET joined == MergeLeft(MergeInner(basics, ratings), crew, NoCrew)
    IN /\ pc = "collect"
       /\ Len(joined) = 4
       /\ Len(df) = 2
       /\ df[1] = df[2]
       /\ \E i \in 1..4 : ~IsNA(joined[i].numVotes) /\ joined[i].numVotes.v = 999

-----------------------------------------------------------------------------
(* The disambiguation on its own: every frame of at most MaxPeople rows     *)

AnnOne == <<"A", "n", "n", " ", "(", "1", ")">>
AnnTwo == <<"A", "n", "n", " ", "(", "2", ")">>

NamedRowChoices ==
    {Person(Val(id), name) : id \in {P1, P2, P3},
                             name \in {Val(Ann), Val(Bob), Val(AnnOne), NA}}

InitNames ==
    /\ pc = "loaded"
    /\ relevant_people \in SeqsUpTo(NamedRowChoices, MaxPeople)
    /\ relevant_ids = {} /\ name_basics = <<>>
    /\ GateIdle /\ TablesIdle /\ ScanIdle /\ RewriteIdle

NextNames == NameStep

SpecNames == InitNames /\ [][NextNames]_vars

\* the number of rows up to row i that carry the name of row i
Occurrence(people, i) ==
    Cardinality({j \in 1..i : people[j].primaryName = people[i].primaryName})

Occurrences(people, i) ==
    Cardinality({j \in 1..Len(people) : people[j].primaryName = people[i].primaryName})

\* C6: the disambiguation keeps the rows and their identifiers in order; the
\* i-th row carrying a name that occurs more than once gets "{name} (i)", a
\* name that occurs once and a null name are left as they are
DisambiguationRule ==
    [][pc = "loaded" =>
        /\ Len(relevant_people') = Len(relevant_people)
        /\ \A i \in 1..Len(relevant_people) :
            LET old == relevant_people[i]
                new == relevant_people'[i]
            IN /\ new.nconst = old.nconst
               /\ new.primaryName =
                    IF old.primaryName = NA THEN NA
                    ELSE IF Occurrences(relevant_people, i) = 1 THEN old.primaryName
                    ELSE Val(old.primaryName.v \o <<" ", "(">>
                                \o DecStr(Occurrence(relevant_people, i)) \o <<")">>)]_vars

DisambiguationRuleWitness ==
    /\ pc = "named"
    /\ relevant_people = << Person(Val(P1), Val(AnnOne)), Person(Val(P2), Val(Bob)),
                            Person(Val(P3), Val(AnnTwo)) >>

\* C7: in the name lookup no two distinct identifiers carry the same name,
\* for every frame, and so for the frames that hold each identifier once
NamesUnique ==
    (pc = "named" /\ Cardinality(PeopleIds(relevant_people)) = Len(relevant_people)) =>
        \A i, j \in 1..Len(name_map) :
            name_map[i].nconst # name_map[j].nconst
                => name_map[i].primaryName # name_map[j].primaryName

-----------------------------------------------------------------------------
(* ids_to_names on its own: every column of at most MaxCells cells and      *)
(* every lookup of at most MaxEntries entries                               *)

Comma(a, b) == a \o <<",">> \o b

CellChoices ==
    { NA, Val(P2), Val(Comma(P1, Comma(P2, P3))), Val(Comma(P3, P1)),
      Val(Comma(P1, Comma(<<>>, P1))), Val(Comma(P2, <<" ">> \o P1)) }

EntryChoices ==
    {Person(Val(id), Val(name)) : id \in {P1, P2, P3}, name \in {AnnOne, AnnTwo, Bob}}

InitRewrite ==
    /\ pc = "ids_to_names"
    /\ series \in SeqsUpTo(CellChoices, MaxCells)
    /\ name_map \in SeqsUpTo(EntryChoices, MaxEntries)
    /\ out = <<>>
    /\ relevant_ids = {} /\ name_basics = <<>> /\ relevant_people = <<>>
    /\ GateIdle /\ TablesIdle /\ ScanIdle

NextRewrite == IdsToNamesCall

SpecRewrite == InitRewrite /\ [][NextRewrite]_vars

\* the names of the tokens that have an entry, in token order
NamesOf(toks, mapping) ==
    LET known == SelectSeq(toks, LAMBDA t : \E e \in Range(mapping) : e.nconst = Val(t))
    IN [k \in 1..Len(known) |->
            (CHOOSE e \in Range(mapping) : e.nconst = Val(known[k])).primaryName.v]

\* C8: ids_to_names keeps the rows in place; a non-null cell becomes the
\* comma-joined names of its tokens that have an entry, in token order, or
\* null when none has; a null cell stays null. The call returns for every
\* lookup that is a mapping (no identifier twice) and raises for no other
RewriteRule ==
    /\ pc = "raised" => DuplicateIndex(name_map)
    /\ pc = "mapped" =>
        /\ ~DuplicateIndex(name_map)
        /\ Len(out) = Len(series)
        /\ \A i \in 1..Len(series) :
            out[i] = IF series[i] = NA THEN NA
                     ELSE LET names == NamesOf(Split(series[i].v, ","), name_map)
                          IN IF names = <<>> THEN NA ELSE Val(Join(names, ","))

RewriteRuleWitness ==
    /\ pc = "mapped"
    /\ name_map = << Person(Val(P1), Val(AnnOne)), Person(Val(P3), Val(AnnTwo)) >>
    /\ series = << Val(Comma(P1, Comma(P2, P3))), Val(P2) >>
    /\ out = << Val(Comma(AnnOne, AnnTwo)), NA >>

-----------------------------------------------------------------------------
(* build_imdb_csv as a whole: the cache gate, the fetches and the stages    *)

\* a variant of UseCache that takes the force flag the other way round
UseCacheWhenForced(exists, f) == exists /\ f

\* `CSV_PATH.exists() and not force`
UseCache(exists, f) == exists /\ ~f

\* what the remote archives may hold when they are fetched
BasicsTables ==
    { << Title(T1, Val(Movie), Val(0), Val(1930), Val(90)),
         Title(T2, Val(Movie), Val(0), Val(1931), Val(90)) >>,
      << Title(T1, Val(Movie), Val(0), Val(1930), Val(90)) >> }

RatingsTables ==
    { << Rating(T1, Val(1000)), Rating(T2, Val(1000)) >>,
      << Rating(T1, Val(1000)), Rating(T2, Val(999)) >> }

CrewTables ==
    { << Crew(T1, Val(Comma(P1, <<"\t", " ">> \o P2 \o <<"\n">>)), Val(P3)),
         Crew(T2, Val(<<"\f">> \o P2), NA) >>,
      << Crew(T1, NA, NA) >>,
      << >> }

PeopleArchives ==
    { << Person(Val(P1), Val(Ann)), Person(Val(P2), Val(Ann)),
         Person(Val(P3), Val(Bob)) >>,
      << Person(Val(P1), Val(Ann)), Person(Val(P1), Val(Bob)),
         Person(Val(P2), Val(Ann)) >>,
      << Person(Val(P1), Val(Ann)) >> }

\* a call of build_imdb_csv(force) up to the cache gate; name_basics is the
\* remote archive as it stands during the call
Call ==
    /\ pc \in {"idle", "returned", "raised"}
    /\ calls < MaxCalls
    /\ \E f \in BOOLEAN, archive \in PeopleArchives :
        /\ force' = f
        /\ name_basics' = archive
        /\ IF UseCache(csv # NA, f)
           THEN /\ ran' = FALSE
                /\ ret' = Val(CSV_PATH)
                /\ pc' = "returned"
           ELSE /\ ran' = TRUE
                /\ ret' = NA
                /\ pc' = "basics"
    /\ calls' = calls + 1
    /\ prev' = IF calls = 0 THEN NA
               ELSE Val([force |-> force, existed |-> existed, ran |-> ran,
                         outcome |-> pc, ret |-> ret])
    /\ existed' = (csv # NA)
    /\ before' = csv
    /\ fetched' = <<>> /\ writes' = 0
    /\ basics' = <<>> /\ ratings' = <<>> /\ crew' = <<>> /\ df' = <<>>
    /\ relevant_ids' = {} /\ relevant_people' = <<>>
    /\ requested' = 0 /\ frames' = <<>> /\ remaining_ids' = {}
    /\ total_matched' = 0 /\ warned' = 0 /\ name_map' = <<>>
    /\ UNCHANGED <<csv, series, out>>

\* read_imdb_tsv("title.basics") returns
FetchBasics ==
    /\ pc = "basics"
    /\ basics' \in BasicsTables
    /\ fetched' = Append(fetched, "title.basics")
    /\ pc' = "ratings"
    /\ UNCHANGED <<force, csv, ret, writes, ran, calls, prev, existed,
                   before, ratings, crew, df, relevant_ids, name_basics, requested,
                   frames, remaining_ids, total_matched, warned,
                   relevant_people, name_map, series, out>>

\* read_imdb_tsv("title.ratings") returns
FetchRatings ==
    /\ pc = "ratings"
    /\ ratings' \in RatingsTables
    /\ fetched' = Append(fetched, "title.ratings")
    /\ pc' = "crew"
    /\ UNCHANGED <<force, csv, ret, writes, ran, calls, prev, existed,
                   before, basics, crew, df, relevant_ids, name_basics, requested,
                   frames, remaining_ids, total_matched, warned,
                   relevant_people, name_map, series, out>>

\* read_imdb_tsv("title.crew") returns
FetchCrew ==
    /\ pc = "crew"
    /\ crew' \in CrewTables
    /\ fetched' = Append(fetched, "title.crew")
    /\ pc' = "merge"
    /\ UNCHANGED <<force, csv, ret, writes, ran, calls, prev, existed,
                   before, basics, ratings, df, relevant_ids, name_basics, requested,
                   frames, remaining_ids, total_matched, warned,
                   relevant_people, name_map, series, out>>

\* read_imdb_tsv raises: the download or the parse of the archive fails
FetchFails ==
    /\ pc \in {"basics", "ratings", "crew"}
    /\ fetched' = Append(fetched, CASE pc = "basics" -> "title.basics"
                                    [] pc = "ratings" -> "title.ratings"
                                    [] pc = "crew" -> "title.crew")
    /\ pc' = "raised"
    /\ UNCHANGED <<force, csv, ret, writes, ran, calls, prev, existed,
                   before, basics, ratings, crew, df, relevant_ids, name_basics,
                   requested, frames, remaining_ids, total_matched, warned,
                   relevant_people, name_map, series, out>>

Init ==
    /\ pc = "idle"
    /\ csv \in {NA, Val(<<>>)}
    /\ force = FALSE /\ ret = NA /\ fetched = <<>> /\ writes = 0
    /\ ran = FALSE /\ calls = 0 /\ prev = NA /\ existed = FALSE /\ before = csv
    /\ relevant_ids = {} /\ name_basics = <<>> /\ relevant_people = <<>>
    /\ TablesIdle /\ ScanIdle /\ RewriteIdle

Next ==
    \/ Call
    \/ FetchBasics
    \/ FetchRatings
    \/ FetchCrew
    \/ FetchFails
    \/ MergeStep
    \/ FilterStep
    \/ CollectStep
    \/ LoadSkip
    \/ LoadDownload
    \/ LoadDownloadFails
    \/ ScanChunk
    \/ ScanExhausted
    \/ ScanParseFails
    \/ LoadReturn
    \/ NameStep
    \/ RewriteStep
    \/ WriteStep

Spec == Init /\ [][Next]_vars

AllTitles == <<"title.basics", "title.ratings", "title.crew">>

\* C1: a call runs the pipeline exactly when the artifact is missing or force
\* is set; a call that does not run it returns the artifact location,
\* requests no archive and writes nothing, and so does the second of two
\* calls without force that follow each other from a missing artifact
CacheIdempotence ==
    /\ calls > 0 =>
        /\ ran <=> (~existed \/ force)
        /\ ~ran => /\ pc = "returned" /\ ret = Val(CSV_PATH)
                   /\ fetched = <<>> /\ writes = 0 /\ csv = before
        /\ (ran /\ pc = "returned") =>
                   /\ ret = Val(CSV_PATH) /\ writes = 1 /\ csv # NA
                   /\ SubSeq(fetched, 1, 3) = AllTitles
    /\ (prev # NA /\ ~force /\ ~prev.v.force /\ ~prev.v.existed
            /\ prev.v.outcome = "returned") =>
        /\ prev.v.ran /\ ~ran /\ existed
        /\ pc = "returned" /\ ret = prev.v.ret
        /\ fetched = <<>> /\ writes = 0 /\ csv = before

CacheIdempotenceWitness ==
    /\ prev # NA /\ ~force /\ ~prev.v.force /\ ~prev.v.existed
    /\ prev.v.outcome = "returned" /\ prev.v.ran
    /\ pc = "returned" /\ ~ran /\ calls = 2

\* C2: a call that ends with an error leaves the file at CSV_PATH as it was
\* when the call started; the file is written only by a call that has made
\* every fetch and has come to its return
NoPartialArtifact ==
    /\ pc = "raised" => csv = before /\ writes = 0
    /\ (ran /\ pc # "returned") => csv = before /\ writes = 0
    /\ writes > 0 =>
        /\ pc = "returned" /\ writes = 1
        /\ fetched = IF relevant_ids = {} THEN AllTitles
                     ELSE Append(AllTitles, "name.basics")

NoPartialArtifactWitness ==
    /\ pc = "raised" /\ force /\ existed /\ before # Val(<<>>)
    /\ fetched = Append(AllTitles, "name.basics")
    /\ requested = 0
    /\ csv = before

====
